---- MODULE Spec2Model ----
(***************************************************************************)
(* A model of the download orchestrator of src/app.py: the job registry,   *)
(* the worker that supervises one yt-dlp process per job, the progress     *)
(* line parser, cancellation, the retention sweep, the progress stream and *)
(* the storage agent's lookup of a finished file.                          *)
(*                                                                         *)
(* Text is modelled as a sequence of atoms.  An atom is one character, or  *)
(* one of the literal markers the code searches for ("[download]", "at",   *)
(* "ETA", "/s"); no character of a marker occurs in any other atom, so a   *)
(* marker occurs in the text exactly when its atoms occur consecutively.   *)
(***************************************************************************)
EXTENDS Integers, Sequences, FiniteSets, TLC

VARIABLES
    \* ---- DownloadOrchestrator ----
    active_downloads,   \* ids in the registry (keys of self.active_downloads)
    state,              \* the DownloadState object of every job
    queue,              \* the executor's work queue (FIFO)
    pc,                 \* where each job's worker is in _download_worker
    line,               \* the worker's local: the line it holds
    nread,              \* lines the process of each job has emitted so far
    exc,                \* the worker's local: the exception being handled
    proc,               \* the external process of each job
    disk,               \* files of the download directory written by yt-dlp
    now,                \* time.time()
    sweeper,            \* periodic_cleanup: its position and its to_delete
    cpc,                \* each cancel caller's position in cancel_download
    ctarget,            \* each cancel caller's download_id
    cres,               \* the last response each cancel caller got
    \* ---- stream_progress: one progress stream ----
    spc,                \* where the stream is in event_stream / get_progress
    sid,                \* the download_id of the stream
    snap,               \* get_progress: the values of the dict read so far
    last,               \* the last event the stream has sent
    nev,                \* events sent so far
    clk,                \* time.time() as the stream reads it
    last_emit,          \* event_stream's local: the time of the last keep-alive
    nbeat,              \* keep-alive comments sent so far
    \* ---- history of the orchestrator, read only by properties ----
    h,
    \* ---- _parse_progress_line applied to one line ----
    pline, pst, ppc,
    \* ---- StorageAgent.get_file_path ----
    sdisk, sreq, sres, sops,
    \* ---- download_with_cobalt ----
    cob                 \* the last response of the route, and the file it wrote

rvars == <<spc, sid, snap, last, nev, clk, last_emit, nbeat>>
ovars == <<active_downloads, state, queue, pc, line, nread, exc, proc, disk,
           now, sweeper, cpc, ctarget, cres, h, rvars>>
pvars == <<pline, pst, ppc>>
svars == <<sdisk, sreq, sres, sops, cob>>
vars  == <<ovars, pvars, svars>>

(***************************************************************************)
(* Python values                                                           *)
(***************************************************************************)
None == "None"
\* None where a time is expected (no clock reading is 0, and both are falsy)
NoTime == 0
\* None where a path is expected
NoPath == <<>>
\* no download id
NoId == 0
\* no response of download_with_cobalt yet
NoResponse == [status |-> "none", download_id |-> <<>>, file |-> <<>>]
\* time.time() when the server starts: the time since the epoch, which is
\* far more than any interval the code compares it with
StartClock == 100

\* A float is the decimal m / 10^e without trailing fractional zeros.
RECURSIVE Norm(_)
Norm(v) ==
    IF v.e > 0 /\ v.m % 10 = 0
    THEN Norm([m |-> v.m \div 10, e |-> v.e - 1])
    ELSE v

Dec(m, e) == Norm([m |-> m, e |-> e])

RECURSIVE Pow10(_)
Pow10(n) == IF n = 0 THEN 1 ELSE 10 * Pow10(n - 1)

\* a <= b on floats
FloatLeq(a, b) == a.m * Pow10(b.e) <= b.m * Pow10(a.e)

(***************************************************************************)
(* str operations                                                          *)
(***************************************************************************)
SP == " "
NL == "\n"
MARK == "[download]"

IsSpace(a) == a \in {SP, NL}

Min(S) == CHOOSE x \in S : \A y \in S : x <= y
Max(S) == CHOOSE x \in S : \A y \in S : x >= y

\* s.find(pat) + 1: the first place pat occurs in s, 0 when it does not
Find(s, pat) ==
    LET at == {i \in 1..(Len(s) - Len(pat) + 1) :
                   SubSeq(s, i, i + Len(pat) - 1) = pat}
    IN  IF at = {} THEN 0 ELSE Min(at)

\* pat in s
Contains(s, pat) == Find(s, pat) # 0

\* s.split(pat, 1)[0]
SplitHead(s, pat) ==
    IF Contains(s, pat) THEN SubSeq(s, 1, Find(s, pat) - 1) ELSE s

\* s.split(pat, 1)[1]; IndexError when pat is not in s
SplitRest(s, pat) ==
    IF Contains(s, pat)
    THEN [exc |-> FALSE, val |-> SubSeq(s, Find(s, pat) + Len(pat), Len(s))]
    ELSE [exc |-> TRUE, val |-> <<>>]

\* s.split()[-1]; IndexError when s holds no token
LastToken(s) ==
    LET ink == {i \in 1..Len(s) : ~IsSpace(s[i])}
    IN  IF ink = {}
        THEN [exc |-> TRUE, val |-> <<>>]
        ELSE LET j == Max(ink)
                 i == 1 + Max({k \in 1..j : IsSpace(s[k])} \cup {0})
             IN  [exc |-> FALSE, val |-> SubSeq(s, i, j)]

\* s.strip()
Strip(s) ==
    LET ink == {i \in 1..Len(s) : ~IsSpace(s[i])}
    IN  IF ink = {} THEN <<>> ELSE SubSeq(s, Min(ink), Max(ink))

Digits == {"0", "1", "2", "4", "5"}
DigitVal == ("0" :> 0) @@ ("1" :> 1) @@ ("2" :> 2) @@ ("4" :> 4) @@ ("5" :> 5)

RECURSIVE DecVal(_)
DecVal(ds) ==
    IF ds = <<>> THEN 0
    ELSE 10 * DecVal(SubSeq(ds, 1, Len(ds) - 1)) + DigitVal[ds[Len(ds)]]

IsDigit(a) == a \in Digits
NotDot(a) == a # "."

\* float(tok); ValueError unless tok is [-]digits[.digits] or [-].digits
\* (over the atoms of this model no other text is a float)
Float(tok) ==
    LET neg  == Len(tok) > 0 /\ tok[1] = "-"
        body == IF neg THEN Tail(tok) ELSE tok
        dots == {i \in 1..Len(body) : body[i] = "."}
        ds   == SelectSeq(body, NotDot)
        ok   == /\ \A i \in 1..Len(body) : IsDigit(body[i]) \/ body[i] = "."
                /\ Cardinality(dots) <= 1
                /\ Len(ds) >= 1
        e    == IF dots = {} THEN 0 ELSE Len(body) - Max(dots)
        m    == DecVal(ds)
    IN  IF ok
        THEN [exc |-> FALSE, val |-> Dec(IF neg THEN 0 - m ELSE m, e)]
        ELSE [exc |-> TRUE, val |-> Dec(0, 0)]

(***************************************************************************)
(* DownloadOrchestrator._parse_progress_line                               *)
(*                                                                         *)
(* Each step returns the state it leaves and whether an exception left it  *)
(* (raised); "except Exception: pass" keeps the state and raises nothing.  *)
(***************************************************************************)

\* what yt-dlp prints on stdout
OutLines ==
    { <<MARK, SP, "4", "5", ".", "2", "%", SP, "at", SP, "1", "/s",
        SP, "ETA", SP, "0", NL>>,
      <<MARK, SP, "1", "5", "0", "%", NL>>,
      <<"x", SP, "5", "%", NL>> }

\* line.split("%", 1)[0].split()[-1], then float(percent_str)
percent_str_of(ln) ==
    LET tok == LastToken(SplitHead(ln, <<"%">>))
    IN  IF tok.exc THEN [exc |-> TRUE, val |-> Dec(0, 0)] ELSE Float(tok.val)
\* percent_str_of on the lines yt-dlp prints, computed once
PercentStr == [ln \in OutLines |-> percent_str_of(ln)]
percent_str(ln) ==
    IF ln \in OutLines THEN PercentStr[ln] ELSE percent_str_of(ln)

\* parse_percent without its try: the ValueError of float() leaves the call
parse_percent_unguarded(ln, st) ==
    IF Contains(ln, <<"%">>)
    THEN LET r == percent_str(ln)
         IN  IF r.exc
             THEN [st |-> st, raised |-> TRUE]
             ELSE [st |-> [st EXCEPT !.progress = r.val], raised |-> FALSE]
    ELSE [st |-> st, raised |-> FALSE]

\* parse_percent storing a rebuilt state whose cancel_requested is the default
parse_percent_rebuilt(ln, st) ==
    IF Contains(ln, <<"%">>) /\ ~percent_str(ln).exc
    THEN [st |-> [st EXCEPT !.progress = percent_str(ln).val,
                            !.cancel_requested = FALSE],
          raised |-> FALSE]
    ELSE [st |-> st, raised |-> FALSE]

\* if "%" in line: try: ... state.progress = float(percent_str) except: pass
parse_percent(ln, st) ==
    IF Contains(ln, <<"%">>)
    THEN LET r == percent_str(ln)
         IN  IF r.exc
             THEN [st |-> st, raised |-> FALSE]
             ELSE [st |-> [st EXCEPT !.progress = r.val], raised |-> FALSE]
    ELSE [st |-> st, raised |-> FALSE]

\* if " at " in line and "/s" in line: try: ... state.speed = speed
parse_speed(ln, st) ==
    IF Contains(ln, <<SP, "at", SP>>) /\ Contains(ln, <<"/s">>)
    THEN LET after_at == SplitRest(ln, <<SP, "at", SP>>)
         IN  IF after_at.exc
             THEN [st |-> st, raised |-> FALSE]
             ELSE [st |-> [st EXCEPT !.speed =
                              Strip(SplitHead(after_at.val, <<SP, "ETA">>))],
                   raised |-> FALSE]
    ELSE [st |-> st, raised |-> FALSE]

\* parse_eta without .strip()
parse_eta_unstripped(ln, st) ==
    IF Contains(ln, <<"ETA">>)
    THEN [st |-> [st EXCEPT !.eta = SplitRest(ln, <<"ETA">>).val],
          raised |-> FALSE]
    ELSE [st |-> st, raised |-> FALSE]

\* if "ETA" in line: try: ... state.eta = eta
parse_eta(ln, st) ==
    IF Contains(ln, <<"ETA">>)
    THEN LET r == SplitRest(ln, <<"ETA">>)
         IN  IF r.exc
             THEN [st |-> st, raised |-> FALSE]
             ELSE [st |-> [st EXCEPT !.eta = Strip(r.val)], raised |-> FALSE]
    ELSE [st |-> st, raised |-> FALSE]

\* if "[download]" not in line: return
has_marker(ln) == Contains(ln, <<MARK>>)

\* the whole of _parse_progress_line: the three steps in order, an exception
\* that leaves a step ends the call
parse_progress_line(ln, st) ==
    IF ~has_marker(ln) THEN [st |-> st, raised |-> FALSE]
    ELSE LET a == parse_percent(ln, st)
         IN  IF a.raised THEN a
             ELSE LET b == parse_speed(ln, a.st)
                  IN  IF b.raised THEN b ELSE parse_eta(ln, b.st)

(***************************************************************************)
(* The lines the parser is applied to: up to MaxSegs pieces of yt-dlp      *)
(* progress text, in any order.                                            *)
(***************************************************************************)
MaxSegs == 4

Segs ==
    { <<>>,
      <<MARK, SP>>,
      <<"4", "5", ".", "2", "%">>,
      <<"1", "5", "0", "%">>,
      <<"-", "5", "%">>,
      <<"x", "%">>,
      <<SP, "at", SP, "1", "/s">>,
      <<SP, "at", SP, "x">>,
      <<SP, "ETA", SP, "0", NL>>,
      <<"ETA">>,
      <<SP>>,
      <<"/s">> }

RECURSIVE Concat(_)
Concat(ss) == IF ss = <<>> THEN <<>> ELSE Head(ss) \o Concat(Tail(ss))

Lines == { Concat(ss) : ss \in [1..MaxSegs -> Segs] }

\* progress, speed and eta of a DownloadState before the line is parsed
Priors ==
    { [progress |-> Dec(0, 0), speed |-> <<>>, eta |-> <<>>],
      [progress |-> Dec(50, 0), speed |-> <<"9">>, eta |-> <<"9">>] }

(***************************************************************************)
(* DownloadOrchestrator                                                    *)
(***************************************************************************)
MaxJobs  == 2       \* downloads started in one run
MaxLines == 2       \* lines one yt-dlp process prints
MaxTime  == 3       \* the clock stops here

\* MAX_CONCURRENT = int(os.getenv("MAX_CONCURRENT", "3")), the executor's
\* max_workers: the deployment sets it; the model runs a pool of one thread
MAX_CONCURRENT == 1
\* FILE_RETENTION_HOURS = int(os.getenv("FILE_RETENTION_HOURS", "24")): the
\* deployment sets it; the model runs a window of one hour, the clock
\* counting hours
FILE_RETENTION_HOURS == 1

Ids     == 1..MaxJobs
Callers == {"c1"}

\* what yt-dlp leaves on stderr: the phrases of lines 405-421 it holds
Stderrs == { {}, {"403"} }

\* DownloadState(id, url, format_id, status="queued", output_path)
NewState ==
    [ status           |-> "queued",
      progress         |-> Dec(0, 0),
      speed            |-> <<>>,
      eta              |-> <<>>,
      error            |-> None,
      completed_at     |-> NoTime,
      final_path       |-> NoPath,
      cancel_requested |-> FALSE ]

Terminal == {"complete", "failed", "cancelled"}

Created == DOMAIN state

\* Busy for an executor whose threads never come back to the pool
BusyNeverFreed == {j \in Created : pc[j] # "queued"}

\* the executor's threads that hold a work item
Busy == {j \in Created : pc[j] \notin {"queued", "done"}}

\* glob.glob(state.output_path.replace(".%(ext)s", ".*"))
Glob(j) == {f \in disk : f[1] = j}

\* lines 404-424: the exception a non-zero exit raises
failure_reason(stderr) ==
    IF "403" \in stderr \/ "forbidden" \in stderr
        THEN "YouTube blocked the download (403 Forbidden)"
    ELSE IF "not available" \in stderr \/ "no suitable format" \in stderr
        THEN "Selected format is no longer available"
    ELSE IF "private" \in stderr
        THEN "Video is private or unavailable"
    ELSE IF "sign in" \in stderr \/ "age" \in stderr
        THEN "Age-restricted video (not supported)"
    ELSE IF stderr # {}
        THEN "Download failed: text"
    ELSE "CalledProcessError"

\* lines 427-431: the error an OSError leaves
os_error_text(e) == IF e = "ENOSPC" THEN "Storage full - contact admin" ELSE e

OInit ==
    /\ active_downloads = {}
    /\ state   = <<>>
    /\ queue   = <<>>
    /\ pc      = [j \in Ids |-> "none"]
    /\ line    = [j \in Ids |-> <<>>]
    /\ nread   = [j \in Ids |-> 0]
    /\ exc     = [j \in Ids |-> None]
    /\ proc    = [j \in Ids |-> "none"]
    /\ disk    = {}
    /\ now     = 1
    /\ sweeper = [pc |-> "sleep", to_delete |-> {}]
    /\ cpc     = [c \in Callers |-> "idle"]
    /\ ctarget = [c \in Callers |-> NoId]
    /\ cres    = [c \in Callers |-> None]
    /\ h       = [flagged |-> {}, held |-> {}, registered |-> FALSE,
                  opened_at |-> 0, sweep_failed |-> FALSE]
    /\ spc     = "off"
    /\ sid     = NoId
    /\ snap    = <<>>
    /\ last    = <<>>
    /\ nev     = 0
    /\ clk     = StartClock
    /\ last_emit = 0
    /\ nbeat   = 0

PInit == pline = <<>> /\ pst = None /\ ppc = "off"
SInit ==
    /\ cob = NoResponse
    /\ sdisk = {} /\ sreq = <<>> /\ sres = None /\ sops = <<>>

Init == OInit /\ PInit /\ SInit

\* start_download: a fresh id, a queued state, a work item for the executor
StartDownload ==
    /\ Cardinality(Created) < MaxJobs
    /\ LET j == Cardinality(Created) + 1
       IN  /\ state' = state @@ (j :> NewState)
           /\ active_downloads' = active_downloads \cup {j}
           /\ queue' = Append(queue, j)
           /\ pc' = [pc EXCEPT ![j] = "queued"]
    /\ UNCHANGED <<line, nread, exc, proc, disk, now, sweeper, cpc, ctarget,
                   cres, h>>
    /\ UNCHANGED <<pvars, svars, rvars>>

\* SlotFree as an executor that starts a thread for every work item
SlotFreeUnbounded == TRUE

\* whether a thread of the pool is free to take a work item
SlotFree == Cardinality(Busy) < MAX_CONCURRENT

\* ThreadPoolExecutor: a free thread takes the oldest work item
Dispatch ==
    /\ queue # <<>>
    /\ SlotFree
    /\ pc' = [pc EXCEPT ![Head(queue)] = "L333"]
    /\ queue' = Tail(queue)
    /\ UNCHANGED <<active_downloads, state, line, nread, exc, proc, disk, now,
                   sweeper, cpc, ctarget, cres, h>>
    /\ UNCHANGED <<pvars, svars, rvars>>

\* the keys of the dict get_progress returns, in the order lines 492-496
\* read them, and the values a DownloadState holds for them
SnapKeys == <<"status", "progress", "speed", "eta", "error">>
Tuple(st) == [k \in 1..Len(SnapKeys) |-> st[SnapKeys[k]]]

\* history: the values the stream's job has held since get_progress looked
\* it up, while the call is reading them
Held == IF spc = "L492"
        THEN [h EXCEPT !.held = @ \cup {Tuple(state'[sid])}]
        ELSE h

\* the worker's frame: what a step of job j's worker leaves alone
WFrame == /\ UNCHANGED <<active_downloads, queue, now, sweeper, cpc, ctarget,
                       cres>>
          /\ h' = Held
          /\ UNCHANGED <<pvars, svars, rvars>>

Goto(j, l) == pc' = [pc EXCEPT ![j] = l]
\* the worker's call ends: its locals are gone
Return(j) ==
    /\ pc' = [pc EXCEPT ![j] = "return"]
    /\ line' = [line EXCEPT ![j] = <<>>]
    /\ nread' = [nread EXCEPT ![j] = 0]
    /\ exc' = [exc EXCEPT ![j] = None]
SetField(j, f, v) == state' = [state EXCEPT ![j][f] = v]

\* the exceptions that are instances of OSError
OSErrors == {"ENOSPC", "ENOENT"}

\* except_clause with the second clause missing: an exception that is no
\* OSError leaves _download_worker
except_clause_oserror_only(e) == IF e \in OSErrors THEN "L426" ELSE "raised"

\* lines 425 and 434: the except clause that takes an exception raised in
\* the try block ("raised" would be: none, it leaves _download_worker)
except_clause(e) == IF e \in OSErrors THEN "L426" ELSE "L435"

\* an exception is raised inside the try block of lines 336-424
Raise(j, e) ==
    /\ exc' = [exc EXCEPT ![j] = e]
    /\ Goto(j, except_clause(e))

\* line 333
SetDownloading(j) ==
    /\ pc[j] = "L333"
    /\ SetField(j, "status", "downloading")
    /\ Goto(j, "L364")
    /\ UNCHANGED <<line, nread, exc, proc, disk>> /\ WFrame

\* lines 364-376: the process starts, or the OS refuses
Popen(j) ==
    /\ pc[j] = "L364"
    /\ \/ /\ proc' = [proc EXCEPT ![j] = "alive"]
          /\ Goto(j, "L379")
          /\ UNCHANGED exc
       \/ /\ \E e \in OSErrors : Raise(j, e)
          /\ UNCHANGED proc
    /\ UNCHANGED <<state, line, nread, disk>> /\ WFrame

\* line 379: the next line of stdout (the process has written part of the
\* file by the time it reports progress), or the end of the stream
ReadLine(j) ==
    /\ pc[j] = "L379"
    /\ proc[j] = "alive"
    /\ \/ /\ nread[j] < MaxLines
          /\ \E l \in OutLines :
                /\ line' = [line EXCEPT ![j] = l]
                /\ disk' = IF has_marker(l) THEN disk \cup {<<j, "part">>}
                           ELSE disk
          /\ nread' = [nread EXCEPT ![j] = @ + 1]
          /\ Goto(j, "L380")
       \/ /\ Goto(j, "L388")
          /\ UNCHANGED <<line, nread, disk>>
    /\ UNCHANGED <<state, exc, proc>> /\ WFrame

\* CheckCancel with the test of cancel_requested after the parse: the line
\* is parsed whole, then the flag is honoured
CheckCancelLate(j) ==
    /\ pc[j] = "L380"
    /\ IF state[j].cancel_requested
       THEN /\ proc' = [proc EXCEPT ![j] = "killed"]
            /\ state' = [state EXCEPT ![j] =
                   [parse_progress_line(line[j], state[j]).st
                       EXCEPT !.status = "cancelled"]]
            /\ Return(j)
       ELSE /\ Goto(j, IF has_marker(line[j]) THEN "L443" ELSE "L379")
            /\ UNCHANGED <<state, proc, line, nread, exc>>
    /\ UNCHANGED disk /\ WFrame

\* lines 380-386, and line 441 of the call that follows
CheckCancel(j) ==
    /\ pc[j] = "L380"
    /\ IF state[j].cancel_requested
       THEN /\ proc' = [proc EXCEPT ![j] = "killed"]
            /\ SetField(j, "status", "cancelled")
            /\ Return(j)
       ELSE /\ Goto(j, IF has_marker(line[j]) THEN "L443" ELSE "L379")
            /\ UNCHANGED <<state, proc, line, nread, exc>>
    /\ UNCHANGED disk /\ WFrame

\* one step of _parse_progress_line: the step's result is stored and an
\* exception leaving it reaches the worker's handler
ParseStep(j, r, next) ==
    /\ state' = [state EXCEPT ![j] = r.st]
    /\ IF r.raised
       THEN Raise(j, "parse")
       ELSE UNCHANGED exc /\ Goto(j, next)
    /\ UNCHANGED <<line, nread, proc, disk>> /\ WFrame

\* lines 443-448
ParsePercent(j) ==
    pc[j] = "L443" /\ ParseStep(j, parse_percent(line[j], state[j]), "L449")

\* lines 449-455
ParseSpeed(j) ==
    pc[j] = "L449" /\ ParseStep(j, parse_speed(line[j], state[j]), "L456")

\* lines 456-461
ParseEta(j) ==
    pc[j] = "L456" /\ ParseStep(j, parse_eta(line[j], state[j]), "L379")

\* lines 388-424: the process exits with 0 (leaving the file, or none), or
\* with another code and some stderr, or does not exit within YTDLP_TIMEOUT
Wait(j) ==
    /\ pc[j] = "L388"
    /\ \/ /\ proc' = [proc EXCEPT ![j] = "exit0"]
          /\ \E made \in BOOLEAN :
                disk' = (disk \ {<<j, "part">>})
                            \cup (IF made THEN {<<j, "mp4">>} ELSE {})
          /\ Goto(j, "L395")
          /\ UNCHANGED exc
       \/ /\ proc' = [proc EXCEPT ![j] = "exit1"]
          /\ \E e \in Stderrs : Raise(j, failure_reason(e))
          /\ UNCHANGED disk
       \/ /\ Raise(j, "TimeoutExpired")
          /\ UNCHANGED <<proc, disk>>
    /\ UNCHANGED <<state, line, nread>> /\ WFrame

\* line 395
SetComplete(j) ==
    /\ pc[j] = "L395"
    /\ SetField(j, "status", "complete")
    /\ Goto(j, "L396")
    /\ UNCHANGED <<line, nread, exc, proc, disk>> /\ WFrame

\* line 396
SetProgress100(j) ==
    /\ pc[j] = "L396"
    /\ SetField(j, "progress", Dec(100, 0))
    /\ Goto(j, "L397")
    /\ UNCHANGED <<line, nread, exc, proc, disk>> /\ WFrame

\* line 397
SetCompletedAt(j) ==
    /\ pc[j] = "L397"
    /\ SetField(j, "completed_at", now)
    /\ Goto(j, "L398")
    /\ UNCHANGED <<line, nread, exc, proc, disk>> /\ WFrame

\* lines 398 and 463-466: matches[0] if matches else None
FindDownloadedFile(j) ==
    /\ pc[j] = "L398"
    /\ IF Glob(j) = {}
       THEN SetField(j, "final_path", NoPath)
       ELSE \E f \in Glob(j) : SetField(j, "final_path", f)
    /\ Goto(j, "L399")
    /\ UNCHANGED <<line, nread, exc, proc, disk>> /\ WFrame

\* line 399: state.final_path and os.path.exists(state.final_path)
CheckExists(j) ==
    /\ pc[j] = "L399"
    /\ IF state[j].final_path # NoPath /\ state[j].final_path \in disk
       THEN Goto(j, "L400") /\ UNCHANGED <<line, nread, exc>>
       ELSE Return(j)
    /\ UNCHANGED <<state, proc, disk>> /\ WFrame

\* line 400: os.path.getsize raises FileNotFoundError when the file is gone
GetSize(j) ==
    /\ pc[j] = "L400"
    /\ IF state[j].final_path \in disk
       THEN Return(j)
       ELSE /\ Raise(j, "ENOENT")
            /\ UNCHANGED <<line, nread>>
    /\ UNCHANGED <<state, proc, disk>> /\ WFrame

\* lines 426 and 435
SetFailed(j) ==
    /\ pc[j] \in {"L426", "L435"}
    /\ SetField(j, "status", "failed")
    /\ Goto(j, IF pc[j] = "L426" THEN "L427" ELSE "L436")
    /\ UNCHANGED <<line, nread, exc, proc, disk>> /\ WFrame

\* lines 427-432 and 436-437
SetError(j) ==
    /\ pc[j] \in {"L427", "L436"}
    /\ SetField(j, "error",
                IF pc[j] = "L427" THEN os_error_text(exc[j]) ELSE exc[j])
    /\ Goto(j, "L479")
    /\ UNCHANGED <<line, nread, exc, proc, disk>> /\ WFrame

\* lines 433, 438 and 479-485
CleanupPartialFiles(j) ==
    /\ pc[j] = "L479"
    /\ disk' = disk \ Glob(j)
    /\ Return(j)
    /\ UNCHANGED <<state, proc>> /\ WFrame

\* lines 468-477: future.result() raises what left _download_worker, and
\* then the job, if registered, is marked failed and its files removed; the
\* thread is then free
HandleCompletion(j) ==
    /\ pc[j] \in {"return", "raised"}
    /\ IF pc[j] = "raised" /\ j \in active_downloads
       THEN /\ state' = [state EXCEPT ![j].status = "failed",
                                      ![j].error = exc[j]]
            /\ disk' = disk \ Glob(j)
       ELSE UNCHANGED <<state, disk>>
    /\ pc' = [pc EXCEPT ![j] = "done"]
    /\ exc' = [exc EXCEPT ![j] = None]
    /\ UNCHANGED <<line, nread, proc>> /\ WFrame

Worker(j) ==
    \/ SetDownloading(j) \/ Popen(j) \/ ReadLine(j) \/ CheckCancel(j)
    \/ ParsePercent(j) \/ ParseSpeed(j) \/ ParseEta(j) \/ Wait(j)
    \/ SetComplete(j) \/ SetProgress100(j) \/ SetCompletedAt(j)
    \/ FindDownloadedFile(j) \/ CheckExists(j) \/ GetSize(j)
    \/ SetFailed(j) \/ SetError(j) \/ CleanupPartialFiles(j)
    \/ HandleCompletion(j)

\* cancel_guard without the test of the status
cancel_guard_any_status(id) == id \in active_downloads

\* line 501: state and state.status == "downloading"
cancel_guard(id) ==
    id \in active_downloads /\ state[id].status = "downloading"

\* lines 499-501 and 699-702: the lookup and the test; a call that finds
\* nothing to cancel is answered at once
CancelCheck(c, id) ==
    /\ cpc[c] = "idle"
    /\ IF cancel_guard(id)
       THEN /\ cpc' = [cpc EXCEPT ![c] = "L502"]
            /\ ctarget' = [ctarget EXCEPT ![c] = id]
            /\ cres' = [cres EXCEPT ![c] = None]
       ELSE /\ cres' = [cres EXCEPT ![c] = "200 cancelled"]
            /\ ctarget' = [ctarget EXCEPT ![c] = id]
            /\ UNCHANGED cpc
    /\ UNCHANGED <<active_downloads, state, queue, pc, line, nread, exc, proc,
                   disk, now, sweeper, h>>
    /\ UNCHANGED <<pvars, svars, rvars>>

\* line 502, then the route's answer
CancelSet(c) ==
    /\ cpc[c] = "L502"
    /\ state' = [state EXCEPT ![ctarget[c]].cancel_requested = TRUE]
    /\ h' = [h EXCEPT !.flagged = @ \cup {ctarget[c]}]
    /\ cpc' = [cpc EXCEPT ![c] = "idle"]
    /\ cres' = [cres EXCEPT ![c] = "200 cancelled"]
    /\ UNCHANGED <<active_downloads, queue, pc, line, nread, exc, proc, disk,
                   now, sweeper, ctarget>>
    /\ UNCHANGED <<pvars, svars, rvars>>

\* Expired with <= for <
ExpiredAtCutoff(st, cutoff) ==
    /\ st.completed_at # NoTime
    /\ st.completed_at <= cutoff

\* line 508: state.completed_at and state.completed_at < cutoff
Expired(st, cutoff) ==
    /\ st.completed_at # NoTime
    /\ st.completed_at < cutoff

\* periodic_cleanup sleeps an hour (the clock counts the hours), then
\* cleanup_expired_downloads, lines 505-514: the files of the expired jobs
\* are removed and the jobs noted in to_delete
SweepFiles ==
    /\ sweeper.pc = "sleep"
    /\ now < MaxTime
    /\ now' = now + 1
    /\ LET cutoff  == now' - FILE_RETENTION_HOURS
           expired == {j \in active_downloads : Expired(state[j], cutoff)}
       IN  /\ disk' = disk \ {state[j].final_path : j \in expired}
           /\ sweeper' = [pc |-> "L515", to_delete |-> expired]
    /\ UNCHANGED <<active_downloads, state, queue, pc, line, nread, exc, proc,
                   cpc, ctarget, cres, h>>
    /\ UNCHANGED <<pvars, svars, rvars>>

\* cleanup_expired_downloads, lines 515-517: the noted jobs leave the registry
SweepPop ==
    /\ sweeper.pc = "L515"
    /\ active_downloads' = active_downloads \ sweeper.to_delete
    /\ sweeper' = [pc |-> "sleep", to_delete |-> {}]
    /\ UNCHANGED <<state, queue, pc, line, nread, exc, proc, disk, now, cpc,
                   ctarget, cres, h>>
    /\ UNCHANGED <<pvars, svars, rvars>>

Next ==
    \/ StartDownload
    \/ Dispatch
    \/ \E j \in Ids : Worker(j)
    \/ \E c \in Callers, id \in Ids : CancelCheck(c, id)
    \/ \E c \in Callers : CancelSet(c)
    \/ SweepFiles
    \/ SweepPop

Spec == Init /\ [][Next]_vars

\* the places of the worker inside the loop over process.stdout
ReadLoop == {"L379", "L380", "L443", "L449", "L456"}

\* the external process stalls: it writes no further line, keeps its output
\* open and does not exit, so the read of line 379 does not return
Stall(j) ==
    /\ j \in Created
    /\ pc[j] \in ReadLoop
    /\ proc[j] = "alive"
    /\ proc' = [proc EXCEPT ![j] = "stalled"]
    /\ UNCHANGED <<state, pc, line, nread, exc, disk>> /\ WFrame

\* the orchestrator with processes that may stall, under the scheduling of
\* the pool: a free thread takes the next work item, and a thread that can
\* run its worker's next statement does so
NextLive ==
    \/ StartDownload
    \/ Dispatch
    \/ \E j \in Ids : Worker(j)
    \/ \E j \in Ids : Stall(j)

SpecLive ==
    /\ Init /\ [][NextLive]_vars
    /\ WF_vars(Dispatch)
    /\ \A j \in Ids : WF_vars(Worker(j))

(***************************************************************************)
(* stream_progress and get_progress: one stream polling one job while the  *)
(* job's worker runs                                                       *)
(***************************************************************************)
MaxEvents == 2      \* polls of one stream

\* the stream's clock counts in units of PROGRESS_UPDATE_INTERVAL (0.5 s)
PROGRESS_UPDATE_INTERVAL == 1
\* the 15 seconds of line 671, in those units
KEEPALIVE == 30

\* {"error": "Download not found"}: the other keys are absent, and
\* state.get("status") reads None
NotFound == <<None, None, None, None, "Download not found">>

\* what the steps of the stream leave alone
SFrame == /\ UNCHANGED <<active_downloads, state, queue, pc, line, nread, exc,
                         proc, disk, now, sweeper, cpc, ctarget, cres>>
          /\ UNCHANGED <<pvars, svars>>

\* lines 657-661: a client opens the stream of download_id
StreamOpen(id) ==
    /\ spc = "off"
    /\ spc' = "L488"
    /\ sid' = id
    /\ last_emit' = 0
    /\ h' = [h EXCEPT !.registered = id \in active_downloads,
                      !.opened_at = clk]
    /\ UNCHANGED <<snap, last, nev, clk, nbeat>> /\ SFrame

\* lines 662 and 488-490: the lookup of get_progress
GetProgressLookup ==
    /\ spc = "L488"
    /\ IF sid \in active_downloads
       THEN /\ spc' = "L492"
            /\ snap' = <<>>
            /\ h' = [h EXCEPT !.held = {Tuple(state[sid])}]
       ELSE /\ spc' = "L664"
            /\ snap' = NotFound
            /\ h' = [h EXCEPT !.held = {}]
    /\ UNCHANGED <<sid, last, nev, clk, last_emit, nbeat>> /\ SFrame

\* lines 492-496: the next attribute of the state object is read into the
\* dict; after the last one get_progress returns
GetProgressRead ==
    /\ spc = "L492"
    /\ snap' = Append(snap, state[sid][SnapKeys[Len(snap) + 1]])
    /\ spc' = IF Len(snap') = Len(SnapKeys) THEN "L664" ELSE "L492"
    /\ UNCHANGED <<sid, last, nev, clk, last_emit, nbeat, h>> /\ SFrame

\* lines 663-664: the snapshot is sent as one event
Yield ==
    /\ spc = "L664"
    /\ last' = snap
    /\ nev' = nev + 1
    /\ snap' = <<>>
    /\ h' = [h EXCEPT !.held = {}]
    /\ spc' = "L666"
    /\ UNCHANGED <<sid, clk, last_emit, nbeat>> /\ SFrame

\* line 667: status in {"complete", "failed", "cancelled"} or state.get("error")
stream_ends(ev) == ev[1] \in Terminal \/ ev[5] # None

\* lines 666-673: the stream ends, or sends a keep-alive comment when more
\* than 15 seconds have passed since last_emit
StreamNext ==
    /\ spc = "L666"
    /\ IF stream_ends(last)
       THEN spc' = "closed" /\ UNCHANGED <<last_emit, nbeat>>
       ELSE /\ spc' = "L675"
            /\ IF clk - last_emit > KEEPALIVE
               THEN nbeat' = nbeat + 1 /\ last_emit' = clk
               ELSE UNCHANGED <<last_emit, nbeat>>
    /\ UNCHANGED <<sid, snap, last, nev, clk, h>> /\ SFrame

\* line 675: time.sleep suspends the stream for the interval, or for longer
\* when the thread is not scheduled at once; then the next poll
Sleep ==
    /\ spc = "L675"
    /\ nev < MaxEvents
    /\ \E d \in {PROGRESS_UPDATE_INTERVAL, KEEPALIVE + 1} : clk' = clk + d
    /\ spc' = "L488"
    /\ UNCHANGED <<sid, snap, last, nev, last_emit, nbeat, h>> /\ SFrame

\* periodic_cleanup without its except clause: the exception ends the thread
after_cleanup_error_uncaught == "dead"

\* lines 794-795: the exception of a sweep is logged and the loop goes on
\* to the next sleep
after_cleanup_error == "sleep"

\* periodic_cleanup, lines 791-795: after the sleep, or between the two
\* loops of cleanup_expired_downloads, the sweep raises an exception
SweepRaise ==
    /\ sweeper.pc \in {"sleep", "L515"}
    /\ IF sweeper.pc = "sleep"
       THEN now < MaxTime /\ now' = now + 1
       ELSE UNCHANGED now
    /\ sweeper' = [pc |-> after_cleanup_error, to_delete |-> {}]
    /\ h' = [h EXCEPT !.sweep_failed = TRUE]
    /\ UNCHANGED <<active_downloads, state, queue, pc, line, nread, exc, proc,
                   disk, cpc, ctarget, cres>>
    /\ UNCHANGED <<pvars, svars, rvars>>

\* one download and one stream
WatchStart == Created = {} /\ StartDownload

NextWatch ==
    \/ WatchStart
    \/ Dispatch
    \/ \E j \in Ids : Worker(j)
    \/ \E id \in Ids : StreamOpen(id)
    \/ GetProgressLookup
    \/ GetProgressRead
    \/ Yield
    \/ StreamNext
    \/ Sleep

SpecWatch == Init /\ [][NextWatch]_vars

\* the thread of periodic_cleanup
Sweeper == SweepFiles \/ SweepPop \/ SweepRaise

\* one download, whose process may stall, and the periodic cleanup, whose
\* thread start_background_tasks starts and the system schedules
NextSweep ==
    \/ WatchStart
    \/ Dispatch
    \/ \E j \in Ids : Worker(j)
    \/ \E j \in Ids : Stall(j)
    \/ Sweeper

SpecSweep == Init /\ [][NextSweep]_vars /\ WF_vars(Sweeper)

(***************************************************************************)
(* _parse_progress_line on its own: one call on one line                   *)
(***************************************************************************)
InitParse ==
    /\ OInit /\ SInit
    /\ pline \in Lines
    /\ \E p \in Priors : pst = [before |-> p, after |-> p, raised |-> FALSE]
    /\ ppc = "ready"

ParseLine ==
    /\ ppc = "ready"
    /\ LET r == parse_progress_line(pline, pst.before)
       IN  pst' = [before |-> pst.before, after |-> r.st, raised |-> r.raised]
    /\ ppc' = "done"
    /\ UNCHANGED <<pline, ovars, svars>>

NextParse == ParseLine

SpecParse == InitParse /\ [][NextParse]_vars

(***************************************************************************)
(* StorageAgent.get_file_path                                              *)
(***************************************************************************)
Lower == {"a", "b", "c", "d", "e", "f", "g", "h", "i", "j", "k", "l", "m",
          "n", "o", "p", "q", "r", "s", "t", "u", "v", "w", "x", "y", "z"}
Upper == {"A", "B", "C", "D", "E", "F", "G", "H", "I", "J", "K", "L", "M",
          "N", "O", "P", "Q", "R", "S", "T", "U", "V", "W", "X", "Y", "Z"}
Digit == {"0", "1", "2", "3", "4", "5", "6", "7", "8", "9"}
\* [a-zA-Z0-9_\-]
IdChars == Lower \cup Upper \cup Digit \cup {"_", "-"}

\* {16,32}
ID_MIN == 16
ID_MAX == 32

\* [a-zA-Z0-9_\-]{16,32} matches the whole of s
IdBody(s) ==
    /\ Len(s) >= ID_MIN /\ Len(s) <= ID_MAX
    /\ \A i \in 1..Len(s) : s[i] \in IdChars

\* re.match(r"^[a-zA-Z0-9_\-]{16,32}$", s): "$" matches at the end of the
\* string and also just before a newline that ends the string
re_match(s) ==
    \/ IdBody(s)
    \/ /\ Len(s) >= 1 /\ s[Len(s)] = NL
       /\ IdBody(SubSeq(s, 1, Len(s) - 1))

IsPrefix(p, s) == Len(p) <= Len(s) /\ SubSeq(s, 1, Len(p)) = p

\* self.download_dir.glob(f"{download_id}.*")
StorageGlob(id) == {f \in sdisk : IsPrefix(id \o <<".">>, f.name)}

Rep(c, n) == [i \in 1..n |-> c]

\* the download directory: a finished download, and a link that leaves it
StoredFiles ==
    { [name |-> Rep("a", 16) \o <<".", "m", "p", "4">>, inside |-> TRUE],
      [name |-> Rep("b", 16) \o <<".", "m", "p", "4">>, inside |-> FALSE] }

\* the ids asked for: runs of one character around the two length limits,
\* with one character of the run replaced or one character appended
MaxIdDelta == 1
IdLengths ==
    (ID_MIN - MaxIdDelta)..ID_MIN \cup ID_MAX..(ID_MAX + MaxIdDelta)
OddChars == {".", "/", NL, "*"}
RequestIds ==
    LET runs == {Rep(c, n) : c \in {"a", "b", "_"}, n \in IdLengths}
    IN  runs
        \cup {[r EXCEPT ![Len(r)] = c] : r \in runs, c \in OddChars}
        \cup {r \o <<c>> : r \in runs, c \in OddChars}
        \cup { <<".", ".", "/", ".", ".", "/", "e", "t", "c", "/",
                 "p", "a", "s", "s", "w", "d">>, <<>> }

InitStore ==
    /\ OInit /\ PInit
    /\ sdisk \in SUBSET StoredFiles
    /\ sreq = <<>> /\ sres = [kind |-> "none", path |-> <<>>] /\ sops = <<>>
    /\ cob = NoResponse

\* get_file_path(download_id), with the filesystem calls it makes (sops);
\* ValueError is the route's 400, FileNotFoundError its 404
GetFilePath(id) ==
    /\ sreq' = id
    /\ IF ~re_match(id)
       THEN /\ sres' = [kind |-> "ValueError", path |-> <<>>]
            /\ sops' = <<>>
       ELSE IF StorageGlob(id) = {}
       THEN /\ sres' = [kind |-> "FileNotFoundError", path |-> <<>>]
            /\ sops' = <<"glob">>
       ELSE \E f \in StorageGlob(id) :
              /\ sres' = IF f.inside
                         THEN [kind |-> "path", path |-> f.name]
                         ELSE [kind |-> "ValueError", path |-> <<>>]
              /\ sops' = <<"glob", "resolve", "resolve">>
    /\ UNCHANGED <<sdisk, cob, ovars, pvars>>

NextStore == \E id \in RequestIds : GetFilePath(id)

SpecStore == InitStore /\ [][NextStore]_vars

(***************************************************************************)
(* download_with_cobalt                                                    *)
(***************************************************************************)
MaxDownloads == 2   \* files the fallback route writes

\* secrets.token_urlsafe(16): 16 random bytes in URL-safe base64, 22
\* characters of [A-Za-z0-9_-]
TOKEN_CHARS == 22
Tokens == {Rep(c, TOKEN_CHARS) : c \in {"a", "B", "-"}}

\* the file names the fallback service gives: the defaults of
\* cobalt_fallback ("video.mp4", "audio.mp3"), a short one, and one
\* without a suffix
Filenames ==
    { <<"v", "i", "d", "e", "o", ".", "m", "p", "4">>,
      <<"a", "u", "d", "i", "o", ".", "m", "p", "3">>,
      <<"a", ".", "m", "p", "4">>,
      <<"c", "l", "i", "p">> }

\* s.replace(old, new) for one-character old and new
Replace(s, old, new) == [i \in 1..Len(s) |-> IF s[i] = old THEN new ELSE s[i]]

\* lines 728-757: the route fetches the URL and writes the file, or fails
\* before it opens the file (no URL, or the GET raises)
DownloadWithCobalt(download_id, filename) ==
    /\ Cardinality({f \in sdisk : f \notin StoredFiles}) < MaxDownloads
    /\ \/ LET output_path == download_id \o <<"_">> \o filename
          IN  /\ sdisk' = sdisk \cup {[name |-> output_path, inside |-> TRUE]}
              /\ cob' = [status |-> "complete",
                         download_id |-> download_id \o <<"_">>
                                           \o Replace(filename, ".", "_"),
                         file |-> output_path]
       \/ /\ cob' = [status |-> "error", download_id |-> <<>>, file |-> <<>>]
          /\ UNCHANGED sdisk
    /\ UNCHANGED <<sreq, sres, sops, ovars, pvars>>

\* the caller asks the artifact store for the id the route returned
ServeReturned == cob.status = "complete" /\ GetFilePath(cob.download_id)

NextCobalt ==
    \/ \E t \in Tokens, n \in Filenames : DownloadWithCobalt(t, n)
    \/ ServeReturned

SpecCobalt == InitStore /\ [][NextCobalt]_vars

(***************************************************************************)
(* Properties                                                              *)
(***************************************************************************)
Running == {j \in Created : state[j].status = "downloading"}

\* C1: a job's status changes only from queued to downloading and from
\* downloading to complete, failed or cancelled; a terminal status is never
\* followed by another status.
C1_StatusMonotonic ==
    [][\A j \in active_downloads :
          LET a == state[j].status
              b == state'[j].status
          IN  a # b => \/ a = "queued" /\ b = "downloading"
                       \/ a = "downloading" /\ b \in Terminal]_vars

\* C2: at most MAX_CONCURRENT jobs are downloading, the pool never runs more
\* work items than it has threads, and a job that waits in the executor's
\* queue is still queued.
C2_PoolBound ==
    /\ Cardinality(Running) <= MAX_CONCURRENT
    /\ Cardinality(Busy) <= MAX_CONCURRENT
    /\ \A j \in Created : pc[j] = "queued" => state[j].status = "queued"

\* the pool is full and a job submitted since then waits, queued
C2_Witness ==
    /\ Cardinality(Running) = MAX_CONCURRENT
    /\ \E j \in Created : pc[j] = "queued" /\ state[j].status = "queued"

\* the step in which caller c calls cancel_download
CancelCalled(c) ==
    /\ cpc[c] = "idle"
    /\ <<cpc[c], ctarget[c], cres[c]>>' # <<cpc[c], ctarget[c], cres[c]>>

\* C3: a cancel call on a queued job, or on an id that is not in the
\* registry, ends in the step that makes it, answers success, and changes
\* no job, no registry entry and no file.
C3_CancelNoop ==
    [][\A c \in Callers :
          (/\ CancelCalled(c)
           /\ \/ ctarget'[c] \notin active_downloads
              \/ state[ctarget'[c]].status = "queued")
          => /\ state' = state
             /\ active_downloads' = active_downloads
             /\ disk' = disk
             /\ cpc'[c] = "idle"
             /\ cres'[c] = "200 cancelled"]_vars

\* a cancel call on a job that is still queued has been answered
C3_Witness ==
    \E c \in Callers :
        /\ cpc[c] = "idle" /\ cres[c] = "200 cancelled"
        /\ ctarget[c] \in active_downloads
        /\ state[ctarget[c]].status = "queued"
        /\ ~state[ctarget[c]].cancel_requested

(***************************************************************************)
(* The extraction rules of the progress parser, stated on positions of the *)
(* line                                                                    *)
(***************************************************************************)
RECURSIVE TrimLeft(_)
TrimLeft(s) ==
    IF s # <<>> /\ IsSpace(Head(s)) THEN TrimLeft(Tail(s)) ELSE s

RECURSIVE TrimRight(_)
TrimRight(s) ==
    IF s # <<>> /\ IsSpace(s[Len(s)])
    THEN TrimRight(SubSeq(s, 1, Len(s) - 1))
    ELSE s

Trimmed(s) == TrimRight(TrimLeft(s))

Places(ln, a) == {i \in 1..Len(ln) : ln[i] = a}
Has(ln, a) == Places(ln, a) # {}

\* the places where " at " and " ETA" start
AtPlaces(ln) ==
    {i \in 1..(Len(ln) - 2) : ln[i] = SP /\ ln[i + 1] = "at" /\ ln[i + 2] = SP}
SpEtaPlaces(ln) == {i \in 1..(Len(ln) - 1) : ln[i] = SP /\ ln[i + 1] = "ETA"}

\* the last whitespace-delimited token before the first "%": where it ends
\* (0 when there is none) and the token
TokenEnd(ln) ==
    LET k == Min(Places(ln, "%"))
    IN  Max({i \in 1..(k - 1) : ~IsSpace(ln[i])} \cup {0})
Token(ln) ==
    LET e == TokenEnd(ln)
        b == Min({i \in 1..e : \A n \in i..e : ~IsSpace(ln[n])})
    IN  SubSeq(ln, b, e)

\* the line has a "%" and the token before it is a number
NumericPercent(ln) ==
    Has(ln, "%") /\ TokenEnd(ln) # 0 /\ ~Float(Token(ln)).exc

\* the text between " at " and the next " ETA" (or the end), trimmed
SpeedText(ln) ==
    LET from == Min(AtPlaces(ln)) + 3
        etas == {i \in SpEtaPlaces(ln) : i >= from}
        to   == IF etas = {} THEN Len(ln) ELSE Min(etas) - 1
    IN  Trimmed(SubSeq(ln, from, to))

\* the text after "ETA", trimmed
EtaText(ln) == Trimmed(SubSeq(ln, Min(Places(ln, "ETA")) + 1, Len(ln)))

Progress(j) == <<state[j].progress, state[j].speed, state[j].eta>>

\* the worker of job j has stored the percent (speed, eta) of the line it holds
PercentStored(j) == pc[j] \in {"L449", "L456", "L379", "L388"}
SpeedStored(j)   == pc[j] \in {"L456", "L379", "L388"}
EtaStored(j)     == pc[j] \in {"L379", "L388"}

\* C4: whatever the interleaving of a cancel call with the worker's writes
\* of one line, the flag the call has set stays set and every progress field
\* the worker has written for the line holds the line's value.
C4_NoLostUpdate ==
    \A j \in Created :
        /\ j \in h.flagged => state[j].cancel_requested
        /\ Has(line[j], MARK) =>
             /\ (PercentStored(j) /\ NumericPercent(line[j]))
                    => state[j].progress = Float(Token(line[j])).val
             /\ (SpeedStored(j) /\ AtPlaces(line[j]) # {} /\ Has(line[j], "/s"))
                    => state[j].speed = SpeedText(line[j])
             /\ (EtaStored(j) /\ Has(line[j], "ETA"))
                    => state[j].eta = EtaText(line[j])

\* a cancel call has set the flag while the worker was storing a line: the
\* line was read before the flag was set and all of it is stored
C4_Witness ==
    \E j \in Created :
        /\ pc[j] = "L379" /\ has_marker(line[j])
        /\ j \in h.flagged /\ state[j].cancel_requested
        /\ state[j].progress = Dec(452, 1)
        /\ state[j].speed = <<"1", "/s">>
        /\ state[j].eta = <<"0">>

\* C5: when the worker holds a line and cancel_requested is set, its next
\* step kills the process, sets the status cancelled and returns, and
\* progress, speed and eta are those of before the line; they never change
\* once the status is cancelled.
C5_CancelBeforeParse ==
    [][\A j \in Created :
          /\ (pc[j] = "L380" /\ state[j].cancel_requested)
                => /\ Progress(j)' = Progress(j)
                   /\ pc'[j] # pc[j] => /\ proc'[j] = "killed"
                                        /\ state'[j].status = "cancelled"
                                        /\ pc'[j] = "return"
          /\ state[j].status = "cancelled" => Progress(j)' = Progress(j)]_vars

\* a job was cancelled at a line, after an earlier line had been stored
C5_Witness ==
    \E j \in Created :
        /\ state[j].status = "cancelled" /\ proc[j] = "killed"
        /\ state[j].progress = Dec(452, 1)

\* the jobs a sweep at time t must remove: completed_at set and < t - window
Old(t) ==
    {j \in active_downloads :
        /\ state[j].completed_at # NoTime
        /\ state[j].completed_at < t - FILE_RETENTION_HOURS}

C7_ProgressInRange ==
    \A j \in Created :
        /\ FloatLeq(Dec(0, 0), state[j].progress)
        /\ FloatLeq(state[j].progress, Dec(100, 0))

\* the percent token of the parsed line is no number
MalformedPercent == Has(pline, MARK) /\ Has(pline, "%") /\ ~NumericPercent(pline)

\* speed and eta after the call, when the call extracts a speed from a line
\* that has " at " and "/s", and an eta from a line that has "ETA"
SpeedAsExtracted ==
    pst.after.speed = IF AtPlaces(pline) # {} /\ Has(pline, "/s")
                      THEN SpeedText(pline) ELSE pst.before.speed
EtaAsExtracted ==
    pst.after.eta = IF Has(pline, "ETA") THEN EtaText(pline)
                    ELSE pst.before.eta

\* C8: when the percent token of a progress line is no number, the call
\* raises nothing, progress keeps its value, and speed and eta are
\* extracted from the line all the same.
C8_MalformedPercent ==
    (ppc = "done" /\ MalformedPercent)
        => /\ ~pst.raised
           /\ pst.after.progress = pst.before.progress
           /\ SpeedAsExtracted
           /\ EtaAsExtracted

\* a line with a malformed percent, a speed and an eta has been parsed
C8_Witness ==
    /\ ppc = "done" /\ MalformedPercent
    /\ pst.before.progress = Dec(50, 0) /\ pst.after.progress = Dec(50, 0)
    /\ pst.before.speed = <<"9">> /\ pst.after.speed = <<"1", "/s">>
    /\ pst.before.eta = <<"9">> /\ pst.after.eta = <<"0">>

PercentAsExtracted ==
    pst.after.progress = IF NumericPercent(pline)
                         THEN Float(Token(pline)).val
                         ELSE pst.before.progress

\* C9 as stated: on a line with the marker the speed is extracted whenever
\* " at " is present; a line without the marker changes nothing.
C9_ParserAsStated ==
    ppc = "done" =>
        IF Has(pline, MARK)
        THEN /\ PercentAsExtracted
             /\ pst.after.speed = IF AtPlaces(pline) # {}
                                  THEN SpeedText(pline) ELSE pst.before.speed
             /\ EtaAsExtracted
        ELSE pst.after = pst.before

\* C9, amended: on a line with the marker, percent is the last
\* whitespace-delimited token before the first "%" when that is a number,
\* speed is the trimmed text between " at " and " ETA" (or the end of the
\* line) whenever " at " and "/s" are both present, eta is the trimmed text
\* after "ETA"; a field whose rule does not apply keeps its value, and a
\* line without the marker changes no field.
C9_ParserAmended ==
    ppc = "done" =>
        IF Has(pline, MARK)
        THEN PercentAsExtracted /\ SpeedAsExtracted /\ EtaAsExtracted
        ELSE pst.after = pst.before

\* the line of the spec's example has been parsed: 45.2, "1/s", "0"
C9_Witness ==
    /\ ppc = "done"
    /\ pline = <<MARK, SP, "4", "5", ".", "2", "%", SP, "at", SP, "1", "/s",
                 SP, "ETA", SP, "0", NL>>
    /\ pst.before.progress = Dec(50, 0)
    /\ pst.after = [progress |-> Dec(452, 1), speed |-> <<"1", "/s">>,
                    eta |-> <<"0">>]

\* the shape the storage agent accepts: 16 to 32 characters of [a-zA-Z0-9_-]
StrictShape(s) ==
    /\ Len(s) \in ID_MIN..ID_MAX
    /\ \A i \in 1..Len(s) : s[i] \in IdChars

\* C10: get_file_path on an id that is not of the strict shape answers
\* Invalid (ValueError) and makes no filesystem call.
C10_InvalidBeforeFs ==
    (sres.kind # "none" /\ ~StrictShape(sreq))
        => sres.kind = "ValueError" /\ sops = <<>>

\* the worker of job j has finished: _download_worker has returned
Finished(j) == pc[j] \in {"return", "done"}

\* C11: while a job is downloading its progress never decreases: every
\* value stored is greater than or equal to the one stored before it.
C11_ProgressMonotone ==
    [][\A j \in Created :
          (state[j].status = "downloading" /\ state'[j].status = "downloading")
              => FloatLeq(state[j].progress, state'[j].progress)]_vars

\* C12: a job whose final_path is set has the status complete, and a path
\* is assigned to final_path only when the file is on disk.
C12_PathOnlyWhenComplete ==
    [][\A j \in Created :
          /\ state'[j].final_path # NoPath => state'[j].status = "complete"
          /\ state'[j].final_path # state[j].final_path
                => state'[j].final_path \in disk]_vars

\* C13: a job whose worker has finished with the status complete has a
\* process that exited with 0 and a final_path.
C13_CompleteHasArtifact ==
    \A j \in Created :
        (Finished(j) /\ state[j].status = "complete")
            => proc[j] = "exit0" /\ state[j].final_path # NoPath

\* C14: in every state a job has an error exactly when its status is failed.
C14_ErrorIffFailed ==
    \A j \in Created :
        state[j].error # None <=> state[j].status = "failed"

\* C15: once the worker has finished, completed_at is set exactly when the
\* job ended complete or failed.
C15_CompletedAtIffEnded ==
    \A j \in Created :
        Finished(j) =>
            (state[j].completed_at # NoTime
                <=> state[j].status \in {"complete", "failed"})

\* C16: cancel_requested is written only to a job whose status is
\* downloading at the moment of the write.
C16_FlagOnlyWhileRunning ==
    [][\A j \in Created :
          (~state[j].cancel_requested /\ state'[j].cancel_requested)
              => state[j].status = "downloading"]_vars

\* C20: once the worker of a job has finished with the status failed or
\* cancelled, no file whose name starts with the job's id is on disk.
C20_PartialFilesDeleted ==
    \A j \in Created :
        (Finished(j) /\ state[j].status \in {"failed", "cancelled"})
            => Glob(j) = {}

\* C17: the dict get_progress returns for a registered job holds values
\* that the job's status, progress, speed, eta and error all had together
\* in one state during the call.
C17_SnapshotConsistent ==
    (spc = "L664" /\ snap # NotFound) => snap \in h.held

\* C18: a stream opened for a registered job sends every snapshot it takes
\* as one event, sends no event after an event whose status is complete,
\* failed or cancelled, and ends only after such an event.
C18_StreamEndsAtTerminal ==
    [][h.registered =>
          /\ (spc = "L664" /\ spc' # spc)
                => (spc' = "L666" /\ last' = snap /\ nev' = nev + 1)
          /\ (nev' # nev /\ nev > 0) => last[1] \notin Terminal
          /\ (spc # "closed" /\ spc' = "closed") => last[1] \in Terminal]_vars

\* the worker of job j is handling an exception
Handling(j) == exc[j] # None

\* what the handling of an exception does, but for the error it stores: the
\* exception stays inside _download_worker (it never reaches the future),
\* the worker returns with the status failed, and no step of the handling
\* changes another job
CaughtAtBoundary(j) ==
    /\ Handling(j)' => pc'[j] \in {"L426", "L427", "L435", "L436", "L479"}
    /\ (Handling(j) /\ pc'[j] = "return") => state'[j].status = "failed"
    /\ (Handling(j) /\ pc'[j] # pc[j])
            => \A k \in Created \ {j} : state'[k] = state[k]

\* C19 as stated: every exception raised during a job's execution is caught
\* at the worker boundary and the error stored is the exception's message.
C19_CaughtAsStated ==
    [][\A j \in Created :
          /\ CaughtAtBoundary(j)
          /\ (Handling(j) /\ pc'[j] = "return")
                => state'[j].error = exc[j]]_vars

\* C19, amended: every exception raised during a job's execution is caught
\* at the worker boundary, the job ends failed, no other job is changed, and
\* the error stored is the exception's message, or "Storage full - contact
\* admin" when the exception is an OSError with errno 28.
C19_CaughtAmended ==
    [][\A j \in Created :
          /\ CaughtAtBoundary(j)
          /\ (Handling(j) /\ pc'[j] = "return")
                => state'[j].error = IF exc[j] = "ENOSPC"
                                     THEN "Storage full - contact admin"
                                     ELSE exc[j]]_vars

\* one job has ended failed on a full disk and the job submitted after it,
\* still queued, is as it was created
C19_Witness ==
    \E j, k \in Created :
        /\ Finished(j) /\ state[j].status = "failed"
        /\ state[j].error = "Storage full - contact admin"
        /\ k # j /\ state[k] = NewState

\* the jobs whose external process is alive (running or stalled)
LiveProcesses == {j \in Created : proc[j] \in {"alive", "stalled"}}

\* C21: a worker that has returned has left no live process behind, and the
\* live processes are never more than the pool's threads.
C21_ProcessWithinSlot ==
    /\ \A j \in Created : Finished(j) => j \notin LiveProcesses
    /\ Cardinality(LiveProcesses) <= MAX_CONCURRENT

\* C26: a downloading job on which cancel_requested is set never has its
\* status set to complete.
C26_NoCompleteAfterCancel ==
    [][\A j \in Created :
          (state[j].cancel_requested /\ state[j].status = "downloading")
              => state'[j].status # "complete"]_vars

\* C27: a dict that get_progress returns with the status complete has the
\* progress 100, and so has every event a stream sends.
C27_CompleteAtHundred ==
    /\ (spc = "L664" /\ snap # NotFound /\ snap[1] = "complete")
            => snap[2] = Dec(100, 0)
    /\ (nev > 0 /\ last # NotFound /\ last[1] = "complete")
            => last[2] = Dec(100, 0)

\* C25: a keep-alive comment is sent only when more than 15 seconds have
\* passed since the previous one, or since the stream was opened when there
\* is none, and never on the first poll of a stream.
C25_KeepAliveAfterInterval ==
    [][nbeat' # nbeat =>
          /\ nev > 1
          /\ clk - (IF nbeat = 0 THEN h.opened_at ELSE last_emit)
                > KEEPALIVE]_vars

\* C22: every job that is downloading eventually reaches a terminal status,
\* whatever its process does, a stall included.
C22_RunningEndsDespiteStall ==
    \A j \in Ids : (j \in Running) ~> (j \in Created /\ state[j].status \in Terminal)

\* C24: a submission is never refused, whatever the load of the pool, and
\* inserts the job as queued; and when no process stalls, every queued job
\* eventually is downloading.
C24_SubmitQueuesAndRuns ==
    /\ [](Cardinality(Created) < MaxJobs => ENABLED StartDownload)
    /\ [][\A j \in Ids :
             (j \notin Created /\ j \in Created')
                 => /\ state'[j].status = "queued"
                    /\ j \in active_downloads'
                    /\ queue' = Append(queue, j)]_vars
    /\ ([](\A j \in Created : proc[j] # "stalled"))
          => \A j \in Ids :
                (j \in Created /\ state[j].status = "queued") ~> (j \in Running)

\* the second job, submitted while the only thread was taken, is downloading
\* after the first job's process has exited and its worker has returned
C24_Witness ==
    /\ Created = {1, 2}
    /\ pc[1] = "done" /\ proc[1] \in {"exit0", "exit1", "killed"}
    /\ 2 \in Running

\* C23: a sweep that raises does not end the periodic task: after it the
\* task sleeps again and the next sweep starts at the next interval,
\* whether or not every thread of the pool is taken.
C23_SweepsGoOn ==
    /\ [](h.sweep_failed => sweeper.pc \in {"sleep", "L515"})
    /\ [](sweeper.pc = "sleep" /\ now < MaxTime => ENABLED SweepFiles)
    /\ \A t \in 0..(MaxTime - 1) :
          (h.sweep_failed /\ now = t) ~> (now = t + 1)

\* a sweep is under way after an earlier sweep has failed, while the
\* only thread of the pool is held by a job whose process has stalled
C23_Witness ==
    /\ h.sweep_failed
    /\ sweeper.pc = "L515"
    /\ Cardinality(Busy) = MAX_CONCURRENT
    /\ \E j \in Busy : proc[j] = "stalled"

\* C28: when the artifact store has been asked for the id a successful
\* fallback download returned, the id has passed the shape check and the
\* store has answered with the file that download wrote.
C28_ReturnedIdResolves ==
    (cob.status = "complete" /\ sreq = cob.download_id)
        => /\ re_match(cob.download_id)
           /\ sres.kind = "path"
           /\ sres.path = cob.file

====
